---- MODULE Spec2Model ----
(***************************************************************************)
(* picotx: compensable transactions.                                       *)
(*                                                                         *)
(* transaction(fn) creates a context, pushes it on the process-wide        *)
(* context stack, runs the body fn and, when the body fails, runs the      *)
(* compensations registered on the context in reverse order, collecting    *)
(* their failures.  atomic(action, compensation) and                       *)
(* atomicExplicit(action, compensation) wrap an action so that its         *)
(* compensation is registered on a context when the action succeeds.       *)
(*                                                                         *)
(* Transaction invocations are numbered 1, 2, ... in creation order; the   *)
(* context created by invocation t is identified with t.  Index 0 of txs   *)
(* is the code outside every transaction (the caller of the outermost      *)
(* transaction() calls).  The bodies, actions and compensations are        *)
(* caller-supplied code: what they do is chosen nondeterministically.      *)
(* In Spec every call is awaited where it is made, so one flow of control  *)
(* runs at a time.  In SpecSiblings the outside code keeps the promises of  *)
(* its transaction() calls and awaits them later, so that the bodies of    *)
(* transactions that are not nested interleave at their awaits; in         *)
(* SpecOverlap a body keeps the promises of its atomic calls and awaits    *)
(* them later, so that the calls of one body overlap.  In both, one piece  *)
(* of code executes at a time, from where it is resumed to its next await  *)
(* (run is the stack of synchronous calls), and what is awaited settles in *)
(* any order.                                                              *)
(***************************************************************************)
EXTENDS Integers, Sequences, FiniteSets, TLC

\* Bounds of the model.
MaxTx == 2
MaxCalls == 2
\* Bounds of SpecSiblings and SpecOverlap.
MaxConcTx == 2
MaxConcCalls == 3

VARIABLES
    stack,  \* transactionContextStack: sequence of contexts, top last
    comps,  \* comps[c]: ctx.compensations of context c
    txs,    \* txs[t]: the transaction() invocation t (txs[0]: the outside code)
    calls,  \* calls[k]: the k-th invocation of an atomic function
    trace,  \* history: the compensations invoked, in invocation order
    run     \* the codes executing synchronously, the current one last (unused in Spec)

vars == <<stack, comps, txs, calls, trace, run>>

----------------------------------------------------------------------------
\* Errors and completions.

NoError == [kind |-> "none", id |-> 0, errors |-> <<>>]

\* A plain Error raised by caller-supplied code: kind says by what (a body,
\* an action, a compensation), id by which one.
Err(kind, id) == [kind |-> kind, id |-> id, errors |-> <<>>]

\* new Error('Cannot find current transaction context')
ContextMissing == [kind |-> "nocontext", id |-> 0, errors |-> <<>>]

\* new AggregateError(rollbackErrors, 'One or more rollbacks failed')
AggregateError(errs) == [kind |-> "aggregate", id |-> 0, errors |-> errs]

\* How an awaited promise settled.
Pending == [kind |-> "none", val |-> 0, err |-> NoError]
Fulfilled(v) == [kind |-> "value", val |-> v, err |-> NoError]
Rejected(e) == [kind |-> "error", val |-> 0, err |-> e]

\* The wrappers and the orchestrator never look into the values they are
\* handed (arguments, results, errors): each invocation gets values of its
\* own, so that a value that shows up at the wrong place is seen.
ArgOf(k) == 100 + k
ResultOf(k) == 200 + k
BodyValue(t) == 300 + t

----------------------------------------------------------------------------
\* The context store.

\* The lookup gives the context that was pushed first.
getCurrentTransactionContext_Bottom(s) == IF Len(s) = 0 THEN 0 ELSE s[1]

getCurrentTransactionContext(s) == IF Len(s) = 0 THEN 0 ELSE s[Len(s)]

\* The context is pushed twice.
pushTransactionContext_Twice(s, c) == Append(Append(s, c), c)

\* The context is put under the ones already there (unshift).
pushTransactionContext_Front(s, c) == <<c>> \o s

pushTransactionContext(s, c) == Append(s, c)

\* The stack is left as it is.
popTransactionContext_Keep(s) == s

\* The pop takes the oldest context off the stack (Array.prototype.shift).
popTransactionContext_Shift(s) == IF Len(s) = 0 THEN s ELSE Tail(s)

popTransactionContext(s) == IF Len(s) = 0 THEN s ELSE SubSeq(s, 1, Len(s) - 1)

----------------------------------------------------------------------------
\* Sequence helpers.

\* Array.prototype.reverse
Reverse(s) == [i \in 1..Len(s) |-> s[Len(s) + 1 - i]]

NumTx == Cardinality(DOMAIN txs) - 1
TxIds == 1..NumTx
CallIds == 1..Len(calls)

----------------------------------------------------------------------------
\* transaction(fn)

\* const ctx = { compensations: [] }; the invocation starts running its body.
\* mode says what the caller does with the promise: "await" (it is suspended
\* on it), "kept" (it holds it and goes on), "done" (it has awaited it).
\* given is what the body was invoked with (0: no argument).  The fields
\* from depthBefore on are history: the depth of the stack before and after
\* the push and the pop of the invocation, how often it has popped, and the
\* context its pop removed (0: none, the stack was empty).
NewTx(b, pass) ==
    [parent |-> b, passCtx |-> pass, pc |-> "body", wait |-> "none",
     last |-> Pending, result |-> 0, error |-> NoError,
     rollbackErrors |-> <<>>, idx |-> 0, inv |-> 0, out |-> Pending,
     mode |-> "await", given |-> 0, depthBefore |-> 0, depthIn |-> 0, depthAtPop |-> 0,
     depthAfter |-> 0, pops |-> 0, popped |-> 0]

\* The body is invoked without an argument whatever it declares.
BodyArgument_None(t, pass) == 0

\* if (fn.length > 0) result = await fn(ctx); else result = await fn();
\* what the body of t is invoked with (0: no argument).
BodyArgument(t, pass) == IF pass THEN t ELSE 0

\* History of popTransactionContext() in the invocation t: before and after
\* are the stack before and after it.
PopRecord(T, t, before, after) ==
    [T EXCEPT ![t].pops = @ + 1,
              ![t].popped = getCurrentTransactionContext(before),
              ![t].depthAtPop = Len(before),
              ![t].depthAfter = Len(after)]

\* The code b (a body, or the outside code) is running: not suspended in an
\* await and not finished.
Running(b) == txs[b].pc = "body" /\ txs[b].wait = "none"

\* The code b goes on with its next statement.  A body has no try/catch of
\* its own: when a call it awaits fails, the body fails (BodyThrow).  The
\* outside code catches what it awaits.
Proceeds(b) == Running(b) /\ (b = 0 \/ txs[b].last.kind # "error")

\* The awaited promise of the code b settles with c: b resumes.
Resume(T, b, c) == [T EXCEPT ![b].wait = "none", ![b].last = c]

\* A promise made for the code b settles with c: b resumes when it is
\* suspended on that promise.
Deliver(T, b, mode, c) == IF mode = "await" THEN Resume(T, b, c) ELSE T

\* The invocation t has completed: it has returned or rejected.
Ended(t) == txs[t].pc \in {"committed", "failed", "aggregate"}

\* b calls transaction(fn), pass = (fn.length > 0), and awaits it.
TransactionCall(b, pass) ==
    /\ Proceeds(b)
    /\ NumTx < MaxTx
    /\ LET t == NumTx + 1 IN
        /\ stack' = pushTransactionContext(stack, t)
        /\ txs' = [i \in 0..t |->
                      IF i = t
                      THEN [NewTx(b, pass) EXCEPT
                               !.given = BodyArgument(t, pass),
                               !.depthBefore = Len(stack),
                               !.depthIn = Len(stack')]
                      ELSE IF i = b THEN [txs[b] EXCEPT !.wait = "tx"]
                      ELSE txs[i]]
        /\ comps' = Append(comps, <<>>)
    /\ UNCHANGED <<calls, trace>>

\* The transactions enclosing the code b, b included (0 excluded).
RECURSIVE Enclosing(_)
Enclosing(b) == IF b = 0 THEN {} ELSE {b} \cup Enclosing(txs[b].parent)

\* The context values the body b can name: fn is handed ctx when it declares a
\* parameter, and a nested body closes over the ctx of the bodies around it.
Handles(b) == {txs[t].given : t \in Enclosing(b)} \ {0}

\* The body of t completes, with a value of its own.
BodyReturn(t) ==
    /\ t # 0
    /\ Proceeds(t)
    /\ txs' = [txs EXCEPT ![t].pc = "returned", ![t].result = BodyValue(t)]
    /\ UNCHANGED <<stack, comps, calls, trace>>

\* What the body of t fails with: the error the call it awaited has just
\* failed with, which it does not catch, or else an error it throws itself.
Throwable(t) ==
    IF txs[t].last.kind = "error" THEN {txs[t].last.err} ELSE {Err("body", t)}

\* The body of t fails with the error e.
BodyThrow(t, e) ==
    /\ t # 0
    /\ Running(t)
    /\ e \in Throwable(t)
    /\ txs' = [txs EXCEPT ![t].pc = "thrown", ![t].error = e]
    /\ UNCHANGED <<stack, comps, calls, trace>>

\* The result of the body is dropped.
Returned_Nothing(result) == [kind |-> "value", val |-> 0, err |-> NoError]

\* return result
Returned(result) == Fulfilled(result)

\* A nested transaction that commits hands its compensations over to the
\* transaction around it.
Commit_HandsToParent(t) ==
    /\ t # 0
    /\ txs[t].pc = "returned"
    /\ stack' = popTransactionContext(stack)
    /\ txs' = Deliver(PopRecord([txs EXCEPT ![t].pc = "committed",
                                            ![t].out = Returned(txs[t].result)],
                                t, stack, stack'),
                      txs[t].parent, txs[t].mode, Returned(txs[t].result))
    /\ comps' = IF txs[t].parent = 0 THEN comps
                ELSE [comps EXCEPT ![txs[t].parent] = @ \o comps[t]]
    /\ UNCHANGED <<calls, trace>>

\* popTransactionContext(); return result;
Commit(t) ==
    /\ t # 0
    /\ txs[t].pc = "returned"
    /\ stack' = popTransactionContext(stack)
    /\ txs' = Deliver(PopRecord([txs EXCEPT ![t].pc = "committed",
                                            ![t].out = Returned(txs[t].result)],
                                t, stack, stack'),
                      txs[t].parent, txs[t].mode, Returned(txs[t].result))
    /\ UNCHANGED <<comps, calls, trace>>

\* The list is iterated as registered, without .reverse().
RollbackOrder_Forward(list) == list

\* The pass takes the first entry off the list before it reverses it.
RollbackOrder_DropFirst(list) ==
    IF Len(list) = 0 THEN list ELSE Reverse(SubSeq(list, 2, Len(list)))

\* ctx.compensations.reverse(): the list the rollback pass iterates.
RollbackOrder(list) == Reverse(list)

\* The aggregate is thrown whether or not a compensation failed.
Rejection_AlwaysAggregate(error, rollbackErrors) ==
    [kind |-> "aggregate", id |-> 0, errors |-> rollbackErrors]

\* The error of the body is put in front of the rollback failures.
Rejection_WithOriginal(error, rollbackErrors) ==
    IF Len(rollbackErrors) > 0
    THEN [kind |-> "aggregate", id |-> 0, errors |-> <<error>> \o rollbackErrors]
    ELSE error

\* An aggregate that arrives as the error of the body is taken apart and its
\* entries are put in front of the failures of this pass.
Rejection_MergeNested(error, rollbackErrors) ==
    IF Len(rollbackErrors) > 0
    THEN [kind |-> "aggregate", id |-> 0,
          errors |-> error.errors \o rollbackErrors]
    ELSE error

\* if (rollbackErrors.length > 0) throw new AggregateError(rollbackErrors, ...);
\* throw error;
Rejection(error, rollbackErrors) ==
    IF Len(rollbackErrors) > 0 THEN AggregateError(rollbackErrors) ELSE error

\* The for-of loop has another element exactly when its index is inside the
\* list as it is now.
HasNext(idx, list) == idx < Len(list)

\* The pass takes the list of the outermost context.
Compensations_Outermost(C, t) == C[1]

\* for (const rollback of ctx.compensations.reverse()): the list of the pass
\* of t, C being the lists of all the contexts.
Compensations(C, t) == C[t]

\* The pass ends with the error of the body whatever its compensations did.
RollbackDone_AlwaysFailed(t, T, errs) ==
    /\ stack' = popTransactionContext(stack)
    /\ txs' = Deliver(PopRecord([T EXCEPT ![t].pc = "failed",
                                          ![t].rollbackErrors = errs,
                                          ![t].out = Rejected(T[t].error)],
                                t, stack, stack'),
                      T[t].parent, T[t].mode, Rejected(T[t].error))

\* The loop is over: popTransactionContext(), then the invocation rejects.
\* T and errs are the invocations and rollbackErrors as they are now.
RollbackDone(t, T, errs) ==
    /\ stack' = popTransactionContext(stack)
    /\ txs' = Deliver(PopRecord([T EXCEPT ![t].pc = IF Len(errs) > 0
                                                    THEN "aggregate" ELSE "failed",
                                          ![t].rollbackErrors = errs,
                                          ![t].out = Rejected(Rejection(T[t].error, errs))],
                                t, stack, stack'),
                      T[t].parent, T[t].mode,
                      Rejected(Rejection(T[t].error, errs)))

\* The loop iterates a copy of the list taken when the body failed: entries
\* appended during the pass are not part of it.
RollbackLoop_Snapshot(t, T, list, errs, tr) ==
    LET copy == SelectSeq(list, LAMBDA e : ~calls[e.call].inPass) IN
    IF HasNext(T[t].idx, copy)
    THEN LET entry == copy[T[t].idx + 1] IN
         /\ trace' = Append(tr, [tx |-> t, call |-> entry.call,
                                 res |-> entry.res, arg |-> entry.arg,
                                 st |-> "running", err |-> NoError])
         /\ txs' = [T EXCEPT ![t].pc = "comp", ![t].idx = @ + 1,
                             ![t].inv = Len(tr) + 1,
                             ![t].rollbackErrors = errs]
         /\ stack' = stack
    ELSE /\ trace' = tr
         /\ RollbackDone(t, T, errs)

\* The loop of the catch block, from the head of an iteration to its next
\* await: either the next compensation is invoked (await rollback()), or the
\* loop is over.  T, list, errs and tr are the invocations, the list of the
\* pass, rollbackErrors and the history as they are now.
RollbackLoop(t, T, list, errs, tr) ==
    IF HasNext(T[t].idx, list)
    THEN LET entry == list[T[t].idx + 1] IN
         /\ trace' = Append(tr, [tx |-> t, call |-> entry.call,
                                 res |-> entry.res, arg |-> entry.arg,
                                 st |-> "running", err |-> NoError])
         /\ txs' = [T EXCEPT ![t].pc = "comp", ![t].idx = @ + 1,
                             ![t].inv = Len(tr) + 1,
                             ![t].rollbackErrors = errs]
         /\ stack' = stack
    ELSE /\ trace' = tr
         /\ RollbackDone(t, T, errs)

\* A nested invocation leaves the rollback to the invocation around it.
CatchBody_LeaveToOuter(t) ==
    /\ t # 0
    /\ txs[t].pc = "thrown"
    /\ comps' = [comps EXCEPT ![t] = RollbackOrder(@)]
    /\ IF txs[t].parent # 0
       THEN trace' = trace /\ RollbackDone(t, txs, <<>>)
       ELSE RollbackLoop(t, [txs EXCEPT ![t].idx = 0], Compensations(comps', t),
                         <<>>, trace)
    /\ UNCHANGED calls

\* catch (error): rollbackErrors = [], the list is reversed in place and the
\* loop is entered.
CatchBody(t) ==
    /\ t # 0
    /\ txs[t].pc = "thrown"
    /\ comps' = [comps EXCEPT ![t] = RollbackOrder(@)]
    /\ RollbackLoop(t, [txs EXCEPT ![t].idx = 0], Compensations(comps', t),
                    <<>>, trace)
    /\ UNCHANGED calls

\* await rollback() returns: the loop goes on.
CompSucceeds(t) ==
    /\ t # 0
    /\ txs[t].pc = "comp"
    /\ txs[t].wait = "none"
    /\ RollbackLoop(t, txs, Compensations(comps, t), txs[t].rollbackErrors,
                    [trace EXCEPT ![txs[t].inv].st = "ok"])
    /\ UNCHANGED <<comps, calls>>

\* The first failure of a compensation ends the pass.
OnRollbackError_Stop(t, T, list, errs, tr) ==
    /\ trace' = tr
    /\ RollbackDone(t, T, errs)

\* catch (rollbackError) { rollbackErrors.push(rollbackError) }: the loop
\* goes on with the failure kept in errs.
OnRollbackError(t, T, list, errs, tr) == RollbackLoop(t, T, list, errs, tr)

\* await rollback() throws.
CompFails(t) ==
    /\ t # 0
    /\ txs[t].pc = "comp"
    /\ txs[t].wait = "none"
    /\ LET e == Err("comp", trace[txs[t].inv].call) IN
       OnRollbackError(t, txs, Compensations(comps, t),
                       Append(txs[t].rollbackErrors, e),
                       [trace EXCEPT ![txs[t].inv].st = "failed",
                                     ![txs[t].inv].err = e])
    /\ UNCHANGED <<comps, calls>>

----------------------------------------------------------------------------
\* atomic(action, compensation) and atomicExplicit(action, compensation)

\* The wrapper keeps the result and the arguments of its first call for every
\* closure it makes.
Closure_OfFirstCall(k, result, arg) ==
    [call |-> k, res |-> ResultOf(1), arg |-> ArgOf(1)]

\* () => compensation(result, ...args)
Closure(k, result, arg) == [call |-> k, res |-> result, arg |-> arg]

\* ctx.compensations.push(...)
Register(list, entry) == Append(list, entry)

\* The lookup is not checked.
NoContext_Unchecked(ctx) == FALSE

\* if (!ctx)
NoContext(ctx) == ctx = 0

\* The context is looked up on the stack although one was given.
ExplicitContext_Lookup(c, s) == getCurrentTransactionContext(s)

\* atomicExplicit: (ctx: TransactionContext, ...args) => ...: the context of
\* the call is the one it is given, whatever the stack s holds.
ExplicitContext(c, s) == c

\* An invocation of an atomic function by the code b, bound to the context
\* ctx.  mode is as for transactions.  History: on is the context an explicit
\* call was handed (0: implicit call); top and depth are the top and the depth
\* of the stack when the call was made, regDepth the depth when its
\* compensation was registered; boundLate and regLate say that the
\* transaction() call owning ctx had completed when the call was bound to
\* ctx, and when the compensation was registered; inPass says that the call
\* was made by a compensation of the rollback pass of b.
NewCall(ctx, b, form) ==
    [ctx |-> ctx, by |-> b, form |-> form, arg |-> ArgOf(Len(calls) + 1),
     res |-> 0,
     st |-> "pending", invoked |-> TRUE, depth |-> Len(stack), out |-> Pending,
     mode |-> "await", on |-> 0,
     top |-> IF Len(stack) = 0 THEN 0 ELSE stack[Len(stack)],
     regDepth |-> 0,
     boundLate |-> ctx # 0 /\ Ended(ctx), regLate |-> FALSE,
     inPass |-> FALSE]

\* b calls an atomic function and awaits it: the context
\* is looked up; without one the call rejects, else the action is invoked.
AtomicCall(b) ==
    /\ Proceeds(b)
    /\ Len(calls) < MaxCalls
    /\ LET ctx == getCurrentTransactionContext(stack) IN
       IF NoContext(ctx)
       THEN /\ calls' = Append(calls,
                   [NewCall(ctx, b, "implicit") EXCEPT
                       !.st = "nocontext", !.invoked = FALSE,
                       !.out = Rejected(ContextMissing)])
            /\ txs' = Resume(txs, b, Rejected(ContextMissing))
       ELSE /\ calls' = Append(calls, NewCall(ctx, b, "implicit"))
            /\ txs' = [txs EXCEPT ![b].wait = "call"]
    /\ UNCHANGED <<stack, comps, trace>>

\* b calls an explicit atomic function on the context c and awaits it: the action is invoked.
AtomicExplicitCall(b, c) ==
    /\ Proceeds(b)
    /\ Len(calls) < MaxCalls
    /\ c \in Handles(b)
    /\ calls' = Append(calls, [NewCall(ExplicitContext(c, stack), b, "explicit")
                                  EXCEPT !.on = c])
    /\ txs' = [txs EXCEPT ![b].wait = "call"]
    /\ UNCHANGED <<stack, comps, trace>>

\* The action of call k returns: the compensation is registered and invoked
\* on the spot.
ActionSucceeds_InvokesCompensation(k) ==
    /\ k \in CallIds
    /\ calls[k].st = "pending"
    /\ LET r == ResultOf(k) IN
       /\ calls' = [calls EXCEPT ![k].st = "ok", ![k].res = r,
                                 ![k].out = Fulfilled(r),
                                 ![k].regDepth = Len(stack),
                                 ![k].regLate = Ended(calls[k].ctx)]
       /\ comps' = [comps EXCEPT ![calls[k].ctx] =
                       Register(@, Closure(k, r, calls[k].arg))]
       /\ trace' = Append(trace, [tx |-> calls[k].ctx, call |-> k,
                                  res |-> r, arg |-> calls[k].arg,
                                  st |-> "ok", err |-> NoError])
       /\ txs' = Deliver(txs, calls[k].by, calls[k].mode, Fulfilled(r))
    /\ UNCHANGED stack

\* The action of call k returns: the compensation is registered on the
\* context of the call and the result is returned.
ActionSucceeds(k) ==
    /\ k \in CallIds
    /\ calls[k].st = "pending"
    /\ LET r == ResultOf(k) IN
       /\ calls' = [calls EXCEPT ![k].st = "ok", ![k].res = r,
                                 ![k].out = Fulfilled(r),
                                 ![k].regDepth = Len(stack),
                                 ![k].regLate = Ended(calls[k].ctx)]
       /\ comps' = [comps EXCEPT ![calls[k].ctx] =
                       Register(@, Closure(k, r, calls[k].arg))]
       /\ txs' = Deliver(txs, calls[k].by, calls[k].mode, Fulfilled(r))
    /\ UNCHANGED <<stack, trace>>

\* The compensation is registered although the action has thrown.
OnActionError_Register(list, entry) == Append(list, entry)

\* What the atomic function does with its list when the action has thrown:
\* the statement after the await is not reached.
OnActionError(list, entry) == list

\* The action of call k throws: the error leaves the atomic function.
ActionFails(k) ==
    /\ k \in CallIds
    /\ calls[k].st = "pending"
    /\ calls' = [calls EXCEPT ![k].st = "failed",
                              ![k].out = Rejected(Err("action", k))]
    /\ comps' = [comps EXCEPT ![calls[k].ctx] =
                    OnActionError(@, Closure(k, 0, calls[k].arg))]
    /\ txs' = Deliver(txs, calls[k].by, calls[k].mode,
                      Rejected(Err("action", k)))
    /\ UNCHANGED <<stack, trace>>

----------------------------------------------------------------------------

Init ==
    /\ stack = <<>>
    /\ comps = <<>>
    /\ txs = [i \in {0} |-> NewTx(0, FALSE)]
    /\ calls = <<>>
    /\ trace = <<>>
    /\ run = <<>>

Next ==
    \/ \E b \in DOMAIN txs, pass \in BOOLEAN :
          TransactionCall(b, pass) /\ UNCHANGED run
    \/ \E b \in DOMAIN txs : AtomicCall(b) /\ UNCHANGED run
    \/ \E b \in DOMAIN txs, c \in TxIds :
          AtomicExplicitCall(b, c) /\ UNCHANGED run
    \/ \E k \in CallIds : ActionSucceeds(k) /\ UNCHANGED run
    \/ \E k \in CallIds : ActionFails(k) /\ UNCHANGED run
    \/ \E t \in TxIds : BodyReturn(t) /\ UNCHANGED run
    \/ \E t \in TxIds : \E e \in Throwable(t) : BodyThrow(t, e) /\ UNCHANGED run
    \/ \E t \in TxIds : Commit(t) /\ UNCHANGED run
    \/ \E t \in TxIds : CatchBody(t) /\ UNCHANGED run
    \/ \E t \in TxIds : CompSucceeds(t) /\ UNCHANGED run
    \/ \E t \in TxIds : CompFails(t) /\ UNCHANGED run

Spec == Init /\ [][Next]_vars

\* The sequential program when whatever can run does run: every body and
\* every compensation that is awaited settles, and the continuation of a
\* settled await is run.
SpecFair == Init /\ [][Next]_vars /\ WF_vars(Next)

----------------------------------------------------------------------------
\* Overlapping calls.  JavaScript runs one piece of code at a time: the code
\* that executes goes on until it awaits a promise that has not settled or
\* ends, control then returns to the code that called it synchronously, and
\* when no code is left executing, something that is awaited settles and the
\* code suspended on it, if any, executes next.

\* The code b is the one executing.
Executing(b) == Len(run) > 0 /\ run[Len(run)] = b

\* No code is executing: what is awaited can settle.
Idle == run = <<>>

\* The executing code is suspended or has ended: control returns to the code
\* that called it.
Return(r) == SubSeq(r, 1, Len(r) - 1)

\* After something has settled, the code that was suspended on it executes.
Wake ==
    LET woken == {b \in DOMAIN txs : txs[b].wait # "none" /\ txs'[b].wait = "none"}
    IN run' = IF woken = {} THEN <<>> ELSE <<CHOOSE b \in woken : TRUE>>

\* What the caller does with the promise of a call it makes.
ModeOf(keep) == IF keep THEN "kept" ELSE "await"

\* b calls transaction(fn), pass = (fn.length > 0): the context is created and
\* pushed and the body starts executing at once.  With keep the code b keeps
\* the promise and goes on when the body is suspended; without, it awaits it.
StartTransaction(b, pass, keep) ==
    /\ Executing(b)
    /\ Proceeds(b)
    /\ NumTx < MaxConcTx
    /\ LET t == NumTx + 1 IN
        /\ stack' = pushTransactionContext(stack, t)
        /\ txs' = [i \in 0..t |->
                      IF i = t
                      THEN [NewTx(b, pass) EXCEPT
                               !.mode = ModeOf(keep),
                               !.given = BodyArgument(t, pass),
                               !.depthBefore = Len(stack),
                               !.depthIn = Len(stack')]
                      ELSE IF i = b /\ ~keep THEN [txs[b] EXCEPT !.wait = "tx"]
                      ELSE txs[i]]
        /\ comps' = Append(comps, <<>>)
        /\ run' = Append(IF keep THEN run ELSE Return(run), t)
    /\ UNCHANGED <<calls, trace>>

\* b calls an atomic function: the context is looked up; without one the
\* call rejects, else the action is invoked.  With keep the code b keeps the
\* promise and goes on; without, it awaits it.
StartAtomic(b, keep) ==
    /\ Executing(b)
    /\ Proceeds(b)
    /\ Len(calls) < MaxConcCalls
    /\ LET ctx == getCurrentTransactionContext(stack) IN
       IF NoContext(ctx)
       THEN /\ calls' = Append(calls,
                   [NewCall(ctx, b, "implicit") EXCEPT
                       !.st = "nocontext", !.invoked = FALSE,
                       !.mode = ModeOf(keep),
                       !.out = Rejected(ContextMissing)])
            /\ txs' = Deliver(txs, b, ModeOf(keep), Rejected(ContextMissing))
            /\ run' = run
       ELSE /\ calls' = Append(calls, [NewCall(ctx, b, "implicit") EXCEPT
                                          !.mode = ModeOf(keep)])
            /\ txs' = IF keep THEN txs ELSE [txs EXCEPT ![b].wait = "call"]
            /\ run' = IF keep THEN run ELSE Return(run)
    /\ UNCHANGED <<stack, comps, trace>>

\* The context values the code b can name when bodies run side by side: a
\* body those of Handles, the outside code every context a body was handed
\* (the body has stored it where the outside code finds it).
Known(b) == IF b = 0 THEN {txs[t].given : t \in TxIds} \ {0} ELSE Handles(b)

\* b calls an explicit atomic function on the context c: the action is
\* invoked.  With keep the code b keeps the promise and goes on; without, it
\* awaits it.
StartAtomicExplicit(b, c, keep) ==
    /\ Executing(b)
    /\ Proceeds(b)
    /\ Len(calls) < MaxConcCalls
    /\ c \in Known(b)
    /\ calls' = Append(calls, [NewCall(ExplicitContext(c, stack), b, "explicit")
                                  EXCEPT !.on = c, !.mode = ModeOf(keep)])
    /\ txs' = IF keep THEN txs ELSE [txs EXCEPT ![b].wait = "call"]
    /\ run' = IF keep THEN run ELSE Return(run)
    /\ UNCHANGED <<stack, comps, trace>>

\* b awaits the promise it kept of the atomic call k: it goes on with the
\* outcome when the call has settled and is suspended on it otherwise.
AwaitCall(b, k) ==
    /\ Executing(b)
    /\ Proceeds(b)
    /\ k \in CallIds
    /\ calls[k].by = b
    /\ calls[k].mode = "kept"
    /\ IF calls[k].out.kind = "none"
       THEN /\ calls' = [calls EXCEPT ![k].mode = "await"]
            /\ txs' = [txs EXCEPT ![b].wait = "call"]
            /\ run' = Return(run)
       ELSE /\ calls' = [calls EXCEPT ![k].mode = "done"]
            /\ txs' = Resume(txs, b, calls[k].out)
            /\ run' = run
    /\ UNCHANGED <<stack, comps, trace>>

\* b awaits the promise it kept of the transaction() call t.
AwaitTransaction(b, t) ==
    /\ Executing(b)
    /\ Proceeds(b)
    /\ t \in TxIds
    /\ txs[t].parent = b
    /\ txs[t].mode = "kept"
    /\ IF txs[t].out.kind = "none"
       THEN /\ txs' = [txs EXCEPT ![t].mode = "await", ![b].wait = "tx"]
            /\ run' = Return(run)
       ELSE /\ txs' = Resume([txs EXCEPT ![t].mode = "done"], b, txs[t].out)
            /\ run' = run
    /\ UNCHANGED <<stack, comps, calls, trace>>

\* The outside code has nothing more to do, or awaits something else.
OutsideEnds ==
    /\ Executing(0)
    /\ run' = Return(run)
    /\ UNCHANGED <<stack, comps, txs, calls, trace>>

InitConc ==
    /\ stack = <<>>
    /\ comps = <<>>
    /\ txs = [i \in {0} |-> NewTx(0, FALSE)]
    /\ calls = <<>>
    /\ trace = <<>>
    /\ run = <<0>>

\* The outside code starts transactions side by side and awaits them later
\* (as in Promise.all([transaction(f), transaction(g)])); each body awaits
\* its atomic calls where it makes them.
NextSiblings ==
    \/ \E pass \in BOOLEAN : StartTransaction(0, pass, TRUE)
    \/ \E t \in TxIds : AwaitTransaction(0, t)
    \/ \E b \in TxIds : StartAtomic(b, FALSE)
    \/ \E b \in DOMAIN txs, c \in TxIds : StartAtomicExplicit(b, c, FALSE)
    \/ \E t \in TxIds :
          Executing(t) /\ BodyReturn(t) /\ run' = Return(run)
    \/ \E t \in TxIds : \E e \in Throwable(t) :
          Executing(t) /\ BodyThrow(t, e) /\ run' = Return(run)
    \/ \E k \in CallIds : Idle /\ ActionSucceeds(k) /\ Wake
    \/ \E k \in CallIds : Idle /\ ActionFails(k) /\ Wake
    \/ \E t \in TxIds : Idle /\ Commit(t) /\ Wake
    \/ \E t \in TxIds : Idle /\ CatchBody(t) /\ Wake
    \/ \E t \in TxIds : Idle /\ CompSucceeds(t) /\ Wake
    \/ \E t \in TxIds : Idle /\ CompFails(t) /\ Wake

SpecSiblings == InitConc /\ [][NextSiblings]_vars

\* The outside code awaits each transaction where it starts it; a body may
\* keep the promises of its atomic calls and await them later (as in
\* const p = f(x); const q = g(y); await p; await q).
NextOverlap ==
    \/ \E pass \in BOOLEAN : StartTransaction(0, pass, FALSE)
    \/ OutsideEnds
    \/ \E b \in TxIds, keep \in BOOLEAN : StartAtomic(b, keep)
    \/ \E b \in TxIds, c \in TxIds, keep \in BOOLEAN :
          StartAtomicExplicit(b, c, keep)
    \/ \E b \in TxIds, k \in CallIds : AwaitCall(b, k)
    \/ \E t \in TxIds :
          Executing(t) /\ BodyReturn(t) /\ run' = Return(run)
    \/ \E t \in TxIds : \E e \in Throwable(t) :
          Executing(t) /\ BodyThrow(t, e) /\ run' = Return(run)
    \/ \E k \in CallIds : Idle /\ ActionSucceeds(k) /\ Wake
    \/ \E k \in CallIds : Idle /\ ActionFails(k) /\ Wake
    \/ \E t \in TxIds : Idle /\ Commit(t) /\ Wake
    \/ \E t \in TxIds : Idle /\ CatchBody(t) /\ Wake
    \/ \E t \in TxIds : Idle /\ CompSucceeds(t) /\ Wake
    \/ \E t \in TxIds : Idle /\ CompFails(t) /\ Wake

SpecOverlap == InitConc /\ [][NextOverlap]_vars

----------------------------------------------------------------------------
\* Compensations that call atomic functions.

\* The compensation the pass of t is awaiting calls an atomic function: the
\* context is looked up as for any implicit call, the stack still holding the
\* context of t, and the action is invoked.  With keep the compensation keeps
\* the promise and goes on; without, it awaits it.
CompAtomicCall(t, keep) ==
    /\ t # 0
    /\ txs[t].pc = "comp"
    /\ txs[t].wait = "none"
    /\ Len(calls) < MaxCalls
    /\ LET ctx == getCurrentTransactionContext(stack) IN
       IF NoContext(ctx)
       THEN /\ calls' = Append(calls,
                   [NewCall(ctx, t, "implicit") EXCEPT
                       !.st = "nocontext", !.invoked = FALSE,
                       !.mode = ModeOf(keep), !.inPass = TRUE,
                       !.out = Rejected(ContextMissing)])
            /\ txs' = Deliver(txs, t, ModeOf(keep), Rejected(ContextMissing))
       ELSE /\ calls' = Append(calls, [NewCall(ctx, t, "implicit") EXCEPT
                                          !.mode = ModeOf(keep),
                                          !.inPass = TRUE])
            /\ txs' = IF keep THEN txs ELSE [txs EXCEPT ![t].wait = "call"]
    /\ UNCHANGED <<stack, comps, trace>>

\* The sequential program with compensations that call atomic functions.
NextReentrant ==
    \/ Next
    \/ \E t \in TxIds, keep \in BOOLEAN :
          CompAtomicCall(t, keep) /\ UNCHANGED run

SpecReentrant == Init /\ [][NextReentrant]_vars

----------------------------------------------------------------------------
\* The history, read back.

\* The calls whose compensations the pass of t invoked, in invocation order.
RanCalls(t) ==
    LET pass == SelectSeq(trace, LAMBDA e : e.tx = t)
    IN [i \in 1..Len(pass) |-> pass[i].call]

\* The atomic calls bound to the context of t whose action succeeded, in call
\* order.
OkCalls(t) ==
    SelectSeq([k \in 1..Len(calls) |-> k],
              LAMBDA k : calls[k].ctx = t /\ calls[k].st = "ok")

\* The failures of the compensations of the pass of t, in the order the
\* compensations were attempted.
FailuresOf(t) ==
    LET failed == SelectSeq(trace, LAMBDA e : e.tx = t /\ e.st = "failed")
    IN [i \in 1..Len(failed) |-> failed[i].err]

\* The body of t failed and its rollback pass is over.
RolledBack(t) == txs[t].pc \in {"failed", "aggregate"}

\* Every compensation the pass of t has invoked returned.
CleanRollback(t) == \A i \in 1..Len(trace) : trace[i].tx = t => trace[i].st = "ok"

----------------------------------------------------------------------------
\* C1: when the body of a transaction has failed after N atomic calls on its
\* context succeeded, one after another, the rollback has invoked the
\* compensations of exactly those N calls, each once, the compensation of the
\* last call first and that of the first call last.
C1_RollbackReverseCallOrder ==
    \A t \in TxIds : RolledBack(t) => RanCalls(t) = Reverse(OkCalls(t))

\* A rollback that invoked two compensations.
C1_Witness == \E t \in TxIds : RolledBack(t) /\ Len(RanCalls(t)) >= 2

\* C2: when the body of a transaction has failed and every compensation of
\* its rollback returned (also when there was none to run), transaction()
\* rejects with the error the body failed with, itself.
C2_OriginalErrorUnchanged ==
    \A t \in TxIds :
        (RolledBack(t) /\ CleanRollback(t)) =>
            /\ txs[t].out = Rejected(txs[t].error)
            /\ txs[t].error.kind # "none"

\* A clean rollback of one compensation, and a rollback with none to run.
C2_Witness ==
    /\ \E t \in TxIds : RolledBack(t) /\ CleanRollback(t) /\ Len(RanCalls(t)) >= 1
    /\ \E t \in TxIds : RolledBack(t) /\ Len(OkCalls(t)) = 0

\* C3: when the body of a transaction has failed and a compensation of its
\* rollback failed, transaction() rejects with an aggregate error whose entries
\* are the failures of the compensations, in the order the compensations were
\* attempted, the compensation registered last first; the error of the body
\* is none of the entries.
C3_AggregateOfRollbackFailures ==
    \A t \in TxIds :
        (RolledBack(t) /\ ~CleanRollback(t)) =>
            LET failures == FailuresOf(t) IN
            /\ txs[t].out.kind = "error"
            /\ txs[t].out.err.kind = "aggregate"
            /\ txs[t].out.err.errors = failures
            /\ \A i \in 1..Len(failures) :
                  /\ failures[i].kind = "comp"
                  /\ \A j \in 1..Len(failures) :
                        i < j => failures[i].id > failures[j].id
            /\ \A i \in 1..Len(txs[t].out.err.errors) :
                  txs[t].out.err.errors[i] # txs[t].error

\* A rollback in which two compensations failed.
C3_Witness == \E t \in TxIds : RolledBack(t) /\ Len(FailuresOf(t)) >= 2

\* C4: a rollback pass attempts the compensations of its list one by one,
\* each once, whatever became of the ones before: at every moment of the pass
\* the compensations attempted are the first idx entries of the list, none
\* of them twice, and the pass ends only when the whole list was attempted.
C4_EveryCompensationOnce ==
    \A t \in TxIds :
        txs[t].pc \in {"comp", "failed", "aggregate"} =>
            LET ran == RanCalls(t) IN
            /\ txs[t].idx <= Len(comps[t])
            /\ ran = [i \in 1..txs[t].idx |-> comps[t][i].call]
            /\ \A i, j \in 1..Len(ran) : i # j => ran[i] # ran[j]
            /\ RolledBack(t) => txs[t].idx = Len(comps[t])

\* A compensation was attempted after an earlier one of the pass had failed.
C4_Witness ==
    \E i, j \in 1..Len(trace) :
        /\ i < j
        /\ trace[i].tx = trace[j].tx
        /\ trace[i].st = "failed"

\* C5: once a transaction() call made outside every transaction has completed
\* (by return, by the error of its body or by the aggregate of its rollback),
\* getCurrentTransactionContext() is undefined: the stack is empty whenever the
\* outside code runs again.
C5_NoContextLeft ==
    (txs[0].wait = "none" /\ NumTx >= 1) =>
        /\ getCurrentTransactionContext(stack) = 0
        /\ stack = <<>>

\* The outside code runs after one of its transactions committed and another
\* one rejected with the aggregate of its rollback.
C5_Witness ==
    /\ txs[0].wait = "none"
    /\ \E t \in TxIds : txs[t].parent = 0 /\ txs[t].pc = "committed"
    /\ \E t \in TxIds : txs[t].parent = 0 /\ txs[t].pc = "aggregate"

\* C6: when the body of a transaction completes without failure, transaction()
\* returns the value the body returned, and no compensation registered on the
\* context of that transaction is invoked, then or at any later time.
C6_CommitReturnsAndNeverCompensates ==
    \A t \in TxIds :
        txs[t].pc \in {"returned", "committed"} =>
            /\ txs[t].pc = "committed" => txs[t].out = Fulfilled(BodyValue(t))
            /\ \A i \in 1..Len(trace) :
                  /\ trace[i].tx # t
                  /\ calls[trace[i].call].ctx # t
                  /\ \A e \in 1..Len(comps[t]) : comps[t][e].call # trace[i].call

\* A nested transaction committed with a compensation on its context, and the
\* transaction around it was rolled back afterwards, running a compensation.
C6_Witness ==
    \E t \in TxIds :
        /\ txs[t].pc = "committed"
        /\ Len(comps[t]) >= 1
        /\ txs[t].parent # 0
        /\ RolledBack(txs[t].parent)
        /\ Len(RanCalls(txs[t].parent)) >= 1

\* C7: when the action of an atomic call fails, in the implicit and in the
\* explicit form, the caller gets the error of the action itself and nothing
\* is put on a compensation list: the compensation of the failed call is never
\* invoked, and the rollback of its context invokes the compensations of the
\* calls that succeeded before it.
C7_FailedActionNotRegistered ==
    \A k \in CallIds :
        calls[k].st = "failed" =>
            /\ calls[k].out = Rejected(Err("action", k))
            /\ txs[calls[k].by].last = Rejected(Err("action", k))
            /\ \A c \in 1..Len(comps) : \A e \in 1..Len(comps[c]) :
                  comps[c][e].call # k
            /\ \A i \in 1..Len(trace) : trace[i].call # k
            /\ RolledBack(calls[k].ctx) =>
                  \A j \in 1..(k - 1) :
                      (calls[j].ctx = calls[k].ctx /\ calls[j].st = "ok") =>
                          \E i \in 1..Len(trace) :
                              trace[i].tx = calls[k].ctx /\ trace[i].call = j

\* An explicit call failed after an implicit call on the same context had
\* succeeded, and the context was rolled back.
C7_Witness ==
    \E j, k \in CallIds :
        /\ j < k
        /\ calls[k].st = "failed" /\ calls[k].form = "explicit"
        /\ calls[j].st = "ok" /\ calls[j].form = "implicit"
        /\ calls[j].ctx = calls[k].ctx
        /\ RolledBack(calls[k].ctx)

\* C8: an implicit atomic call made while the context stack is empty rejects
\* with the context-missing error; its action is not invoked and no
\* compensation is registered for it on any list.
C8_ContextMissing ==
    \A k \in CallIds :
        (calls[k].form = "implicit" /\ calls[k].depth = 0) =>
            /\ calls[k].st = "nocontext"
            /\ calls[k].out = Rejected(ContextMissing)
            /\ ~calls[k].invoked
            /\ \A c \in 1..Len(comps) : \A e \in 1..Len(comps[c]) :
                  comps[c][e].call # k

\* An implicit call was made on the empty stack, before any transaction and
\* after one.
C8_Witness ==
    \E j, k \in CallIds :
        /\ calls[j].st = "nocontext" /\ calls[k].st = "nocontext"
        /\ j < k
        /\ NumTx >= 1

\* C9: when a transaction nested in the body of another one fails, the inner
\* transaction() runs compensations registered on the inner context only and
\* rejects; that rejection is what the outer body fails with, the outer
\* transaction() does not commit, and its rollback runs compensations
\* registered on the outer context only.
C9_NestedRollbackScopes ==
    /\ \A i \in 1..Len(trace) : calls[trace[i].call].ctx = trace[i].tx
    /\ \A t \in TxIds :
          (txs[t].parent # 0 /\ RolledBack(t)) =>
              /\ txs[t].out.kind = "error"
              /\ txs[txs[t].parent].last = txs[t].out
              /\ txs[txs[t].parent].pc \notin {"returned", "committed"}
              /\ RanCalls(t) = Reverse(OkCalls(t))

\* An inner and an outer rollback, each of one compensation, the outer body
\* having failed with the rejection of the inner transaction().
C9_Witness ==
    \E t \in TxIds :
        /\ txs[t].parent # 0
        /\ RolledBack(t) /\ RolledBack(txs[t].parent)
        /\ Len(RanCalls(t)) >= 1 /\ Len(RanCalls(txs[t].parent)) >= 1
        /\ txs[txs[t].parent].error = txs[t].out.err

\* The body of t has failed.
BodyFailed(t) == txs[t].pc \in {"thrown", "comp", "failed", "aggregate"}

\* C10: at whatever depth, when a compensation of a transaction is invoked,
\* every compensation of every transaction nested in it whose body failed
\* has been attempted before.
C10_InnermostFirst ==
    \A i \in 1..Len(trace) : \A t \in TxIds :
        (t # trace[i].tx /\ trace[i].tx \in Enclosing(t) /\ BodyFailed(t)) =>
            \A e \in 1..Len(comps[t]) :
                \E j \in 1..(i - 1) :
                    trace[j].tx = t /\ trace[j].call = comps[t][e].call

\* An outer compensation was invoked after the compensation of a failed
\* nested transaction.
C10_Witness ==
    \E i \in 1..Len(trace) : \E t \in TxIds :
        /\ t # trace[i].tx /\ trace[i].tx \in Enclosing(t)
        /\ BodyFailed(t)
        /\ Len(comps[t]) >= 1

----------------------------------------------------------------------------
\* The list of context c as call numbers, in list order.
ListCalls(c) == [e \in 1..Len(comps[c]) |-> comps[c][e].call]

\* The list of t is still in registration order: no rollback pass has
\* reversed it.
Unreversed(t) == txs[t].pc \in {"body", "returned", "thrown", "committed"}

\* The transaction of the set S with no transaction of S nested in it (0: S
\* is empty).
InnermostWhere(S) ==
    IF S = {} THEN 0
    ELSE CHOOSE t \in S : \A u \in S : t \in Enclosing(u) => u = t

\* The compensation of call k is on the list of context c.
RegisteredOn(k, c) == \E e \in 1..Len(comps[c]) : comps[c][e].call = k

\* C11: every compensation a rollback invokes is handed the result the action
\* of its own atomic call returned and the arguments that call was made with,
\* as they were when the compensation was registered, and never the result or
\* the arguments of another atomic call.
C11_CompensationGetsOwnResultAndArgs ==
    \A i \in 1..Len(trace) :
        LET k == trace[i].call IN
        /\ calls[k].st = "ok"
        /\ trace[i].res = calls[k].res /\ trace[i].res = ResultOf(k)
        /\ trace[i].arg = calls[k].arg /\ trace[i].arg = ArgOf(k)
        /\ \A j \in CallIds :
              j # k => /\ trace[i].res # ResultOf(j)
                       /\ trace[i].arg # calls[j].arg

\* One rollback pass invoked the compensations of two atomic calls.
C11_Witness ==
    \E i, j \in 1..Len(trace) :
        /\ i # j
        /\ trace[i].tx = trace[j].tx
        /\ trace[i].call # trace[j].call
        /\ trace[j].st # "running"

\* C12 as stated: once the rollback of a transaction whose body failed is
\* over, every atomic call the body made on its context whose action
\* succeeded has had its compensation invoked, however the calls the body
\* started overlap.
C12_EverySucceededStepCompensated ==
    \A t \in TxIds :
        RolledBack(t) =>
            \A k \in CallIds :
                (calls[k].by = t /\ calls[k].ctx = t /\ calls[k].st = "ok") =>
                    \E i \in 1..Len(trace) :
                        trace[i].tx = t /\ trace[i].call = k

\* C13: an explicit atomic call is bound to the context it is handed, whatever
\* the stack holds when the call is made and when its action returns: its
\* compensation is registered on the list of that context when the action
\* succeeds, and on no other list.
C13_ExplicitRegistersOnGivenContext ==
    \A k \in CallIds :
        calls[k].form = "explicit" =>
            /\ calls[k].on # 0
            /\ calls[k].ctx = calls[k].on
            /\ calls[k].st # "nocontext"
            /\ \A c \in 1..Len(comps) : RegisteredOn(k, c) => c = calls[k].on
            /\ calls[k].st = "ok" => RegisteredOn(k, calls[k].on)

\* With two transactions side by side, one explicit call was made and
\* registered with the context of the other transaction on top of the stack,
\* and one was made and registered with the stack empty.
C13_Witness ==
    \E j, k \in CallIds :
        /\ calls[j].form = "explicit" /\ calls[j].st = "ok"
        /\ calls[j].top # 0 /\ calls[j].top # calls[j].on
        /\ calls[k].form = "explicit" /\ calls[k].st = "ok"
        /\ calls[k].depth = 0 /\ calls[k].regDepth = 0

\* C14: a body that declares a parameter is invoked with the context its
\* transaction() call has just created, a body that declares none with no
\* argument; while the body runs, the implicit lookup gives that same
\* context; and the implicit and explicit calls bound to one context sit on
\* its one list in the order they were called.
C14_BodyGivenItsContext ==
    \A t \in TxIds :
        /\ txs[t].passCtx => txs[t].given = t
        /\ ~txs[t].passCtx => txs[t].given = 0
        /\ Running(t) => getCurrentTransactionContext(stack) = t
        /\ \A k \in CallIds :
              (calls[k].by = t /\ calls[k].form = "implicit") => calls[k].ctx = t
        /\ Unreversed(t) => ListCalls(t) = OkCalls(t)

\* A body that was handed its context has made an implicit and an explicit
\* call, both registered on its list, and a body without parameter has run.
C14_Witness ==
    /\ \E t \in TxIds : \E j, k \in CallIds :
          /\ txs[t].passCtx
          /\ calls[j].by = t /\ calls[k].by = t
          /\ calls[j].form = "implicit" /\ calls[k].form = "explicit"
          /\ calls[k].ctx = txs[t].given
          /\ Len(comps[t]) = 2
    /\ \E t \in TxIds : ~txs[t].passCtx

\* C15: the aggregate error a transaction() call rejects with holds the
\* failures of compensations registered on the context of that call, and
\* nothing else: when a nested transaction() rejected with an aggregate of
\* its own, none of the entries of that aggregate is an entry of the
\* aggregate of the transaction around it.
C15_AggregateOfOwnFailuresOnly ==
    \A t \in TxIds :
        txs[t].pc = "aggregate" =>
            LET own == txs[t].out.err.errors IN
            /\ txs[t].out.err.kind = "aggregate"
            /\ own = FailuresOf(t)
            /\ \A i \in 1..Len(own) :
                  /\ own[i].kind = "comp"
                  /\ calls[own[i].id].ctx = t
            /\ \A n \in TxIds :
                  (n # t /\ t \in Enclosing(n) /\ txs[n].pc = "aggregate") =>
                      \A i \in 1..Len(own) :
                          \A j \in 1..Len(txs[n].out.err.errors) :
                              own[i] # txs[n].out.err.errors[j]

\* A nested transaction() rejected with an aggregate, the body around it
\* failed with that aggregate, and the rollback of the outer transaction had
\* a failure of its own.
C15_Witness ==
    \E t \in TxIds :
        /\ txs[t].parent # 0
        /\ txs[t].pc = "aggregate"
        /\ txs[txs[t].parent].pc = "aggregate"
        /\ txs[txs[t].parent].error = txs[t].out.err

\* C16 as stated: whenever caller-supplied code runs or is awaited, the top
\* of the stack is the context of the innermost transaction whose body is
\* running at the time (undefined when no body is running).
C16_TopIsInnermostRunningBody ==
    (\A t \in TxIds : txs[t].pc \notin {"returned", "thrown"}) =>
        getCurrentTransactionContext(stack)
            = InnermostWhere({t \in TxIds : txs[t].pc = "body"})

\* C16, amended: with every call awaited where it is made, the stack holds
\* the contexts of the transaction() calls that have not completed, the
\* outermost first: the top is the context of the innermost call whose body
\* is running or whose commit or rollback pass is still under way, and the
\* stack is empty when no call is in progress.
C16_TopIsInnermostOpenCall ==
    LET open == {t \in TxIds : ~Ended(t)} IN
    /\ getCurrentTransactionContext(stack) = InnermostWhere(open)
    /\ Len(stack) = Cardinality(open)
    /\ \A i \in 1..Len(stack) :
          /\ stack[i] \in open
          /\ i > 1 => txs[stack[i]].parent = stack[i - 1]

\* A compensation of a nested transaction is running: its body is over, its
\* context is on top, above the context of the body that awaits it.
C16_Witness ==
    \E t \in TxIds :
        /\ txs[t].pc = "comp"
        /\ txs[t].parent # 0
        /\ getCurrentTransactionContext(stack) = t
        /\ Len(stack) = 2

\* C17 as stated: a transaction() call pops the context it pushed itself, and
\* no atomic call of a body is bound to a context, or registers on it, after
\* the transaction() call owning the context has completed, however the
\* bodies interleave.
C17_OnlyOwnerPopsAndNoLateAccess ==
    /\ \A t \in TxIds : txs[t].pops >= 1 => txs[t].popped = t
    /\ \A k \in CallIds :
          calls[k].by # 0 => ~calls[k].boundLate /\ ~calls[k].regLate

\* C18: every transaction() call pushes once when it starts (the stack is one
\* deeper than before) and pops once when it completes, by return, by the
\* error of its body or by the aggregate of its rollback, and not before; the
\* pop finds the stack non-empty and leaves it as deep as it was before the
\* call started.
C18_BalancedPushPop ==
    \A t \in TxIds :
        /\ txs[t].depthIn = txs[t].depthBefore + 1
        /\ ~Ended(t) => txs[t].pops = 0
        /\ Ended(t) =>
              /\ txs[t].pops = 1
              /\ txs[t].depthAtPop >= 1
              /\ txs[t].popped # 0
              /\ txs[t].depthAfter = txs[t].depthAtPop - 1
              /\ txs[t].depthAfter = txs[t].depthBefore

\* A nested call has completed by the aggregate of its rollback and the call
\* around it by the error of its body after a clean rollback.
C18_Witness ==
    \E t \in TxIds :
        /\ txs[t].parent # 0
        /\ txs[t].pc = "aggregate"
        /\ txs[txs[t].parent].pc = "failed"

\* C19: an implicit atomic call is bound to the context on top of the shared
\* stack when it is made, whichever transaction() call pushed it, and its
\* compensation is registered on the list of that context and on no other:
\* with two transactions side by side, that can be the context of the other
\* transaction (witness).
C19_ImplicitCallBoundToTop ==
    \A k \in CallIds :
        (calls[k].form = "implicit" /\ calls[k].st # "nocontext") =>
            /\ calls[k].ctx = calls[k].top
            /\ \A c \in 1..Len(comps) : RegisteredOn(k, c) => c = calls[k].top
            /\ calls[k].st = "ok" => RegisteredOn(k, calls[k].top)

\* The bodies of two transactions that are not nested are both still
\* running, and the compensation of an implicit call of one of them is on
\* the list of the other.
C19_Witness ==
    \E k \in CallIds :
        LET a == calls[k].by
            b == calls[k].ctx
        IN /\ calls[k].form = "implicit" /\ calls[k].st = "ok"
           /\ a # 0 /\ b # 0 /\ a # b
           /\ a \notin Enclosing(b) /\ b \notin Enclosing(a)
           /\ txs[a].pc = "body" /\ txs[b].pc = "body"
           /\ ~calls[k].boundLate /\ ~calls[k].regLate
           /\ RegisteredOn(k, b)

\* C20 as stated: the list of a context holds the compensations in the order
\* their atomic calls were made, and the rollback pass invokes them in the
\* reverse of that order, also when the body has started several calls
\* before awaiting them.
C20_RegistrationInCallOrder ==
    \A t \in TxIds :
        /\ Unreversed(t) =>
              \A i, j \in 1..Len(comps[t]) :
                  i < j => comps[t][i].call < comps[t][j].call
        /\ LET ran == RanCalls(t) IN
           \A i, j \in 1..Len(ran) : i < j => ran[i] > ran[j]

\* C21 as stated: as long as the transaction() call of a context has not
\* finished, a step changes the list of the context only by appending one
\* entry to it: nothing is reordered, removed or replaced.
C21_ListOnlyAppended ==
    [][\A t \in TxIds :
          ~Ended(t) =>
              \/ comps'[t] = comps[t]
              \/ /\ Len(comps'[t]) = Len(comps[t]) + 1
                 /\ SubSeq(comps'[t], 1, Len(comps[t])) = comps[t]]_vars

\* C21, amended: as long as the transaction() call of a context has not
\* finished, a step changes the list of the context either by appending one
\* entry, the compensation of an atomic call bound to that context, or, in
\* the one step in which the orchestrator catches the failure of the body,
\* by reversing it in place; no entry is removed or replaced.
C21_ListAppendedOrReversedOnce ==
    [][\A t \in TxIds :
          ~Ended(t) =>
              \/ comps'[t] = comps[t]
              \/ /\ Len(comps'[t]) = Len(comps[t]) + 1
                 /\ SubSeq(comps'[t], 1, Len(comps[t])) = comps[t]
                 /\ calls'[comps'[t][Len(comps'[t])].call].ctx = t
                 /\ calls[comps'[t][Len(comps'[t])].call].st = "pending"
              \/ /\ txs[t].pc = "thrown"
                 /\ txs'[t].pc # "thrown"
                 /\ comps'[t] = Reverse(comps[t])]_vars

\* The rollback pass of a transaction is under way and its list, of two
\* entries, is the reverse of what the atomic calls appended.
C21_Witness ==
    \E t \in TxIds :
        /\ txs[t].pc = "comp"
        /\ Len(comps[t]) >= 2
        /\ ListCalls(t) = Reverse(OkCalls(t))
        /\ ListCalls(t) # OkCalls(t)

\* C22: when every call is awaited where it is made, an implicit atomic call
\* that finds a context is bound to the context of the transaction whose body
\* made it, inner or outer, and its compensation is registered on the list
\* of that context and on no list of another nesting level.
C22_RegisteredOnOwnLevel ==
    \A k \in CallIds :
        (calls[k].form = "implicit" /\ calls[k].st # "nocontext") =>
            /\ calls[k].by \in TxIds
            /\ calls[k].ctx = calls[k].by
            /\ \A c \in TxIds : RegisteredOn(k, c) => c = calls[k].by
            /\ calls[k].st = "ok" => RegisteredOn(k, calls[k].by)

\* The body of a nested transaction made an implicit call, the nested
\* transaction() call completed, and the enclosing body then made an implicit
\* call of its own: each compensation is on the list of its own level.
C22_Witness ==
    \E t, u \in TxIds : \E i, o \in CallIds :
        /\ txs[u].parent = t
        /\ Ended(u)
        /\ txs[t].pc = "body"
        /\ i < o
        /\ calls[i].form = "implicit" /\ calls[i].by = u /\ calls[i].st = "ok"
        /\ calls[o].form = "implicit" /\ calls[o].by = t /\ calls[o].st = "ok"
        /\ RegisteredOn(i, u) /\ ~RegisteredOn(i, t)
        /\ RegisteredOn(o, t) /\ ~RegisteredOn(o, u)

\* C23: every invocation of a compensation belongs to the rollback pass of
\* the context the compensation is registered on, and that pass runs after
\* the body of the transaction has failed: the transaction holds the error
\* of its body and is in its pass or past it, and the atomic call of the
\* compensation had returned and registered it before.  Registering a
\* compensation invokes nothing.
C23_InvokedOnlyInRollbackPass ==
    \A i \in 1..Len(trace) :
        LET t == trace[i].tx
            k == trace[i].call
        IN /\ t \in TxIds
           /\ txs[t].error # NoError
           /\ txs[t].pc \in {"comp", "failed", "aggregate"}
           /\ k \in CallIds
           /\ calls[k].st = "ok"
           /\ calls[k].ctx = t
           /\ RegisteredOn(k, t)

\* A compensation is registered on a transaction whose body is still running
\* and has not been invoked, while the pass of a transaction nested in it
\* has invoked the compensation registered on the nested context.
C23_Witness ==
    \E t, u \in TxIds : \E k, j \in CallIds :
        /\ txs[u].parent = t
        /\ txs[t].pc = "body"
        /\ calls[k].st = "ok" /\ RegisteredOn(k, t)
        /\ \A i \in 1..Len(trace) : trace[i].call # k
        /\ RolledBack(u)
        /\ RegisteredOn(j, u)
        /\ \E i \in 1..Len(trace) : trace[i].call = j /\ trace[i].tx = u

\* C25: when a nested transaction has committed and the body of the
\* transaction around it has failed, the pass of the enclosing transaction
\* invokes compensations registered on the enclosing context only, and, once
\* it is over, all of those in reverse order: no compensation on the list of
\* the committed transaction is on the enclosing list or is ever invoked,
\* and the list of the committed transaction stays as it was.
C25_CommittedNestedNotCompensated ==
    \A t, u \in TxIds :
        (txs[u].parent = t /\ txs[u].pc = "committed" /\ BodyFailed(t)) =>
            /\ \A i \in 1..Len(trace) :
                  /\ ~RegisteredOn(trace[i].call, u)
                  /\ calls[trace[i].call].ctx # u
                  /\ trace[i].tx = t => calls[trace[i].call].ctx = t
            /\ \A e \in 1..Len(comps[t]) : ~RegisteredOn(comps[t][e].call, u)
            /\ ListCalls(u) = OkCalls(u)
            /\ RolledBack(t) => RanCalls(t) = Reverse(OkCalls(t))

\* A nested transaction committed with a compensation on its list, the
\* enclosing body registered a compensation of its own and failed, and the
\* enclosing pass is over: it invoked the enclosing compensation and nothing
\* else.
C25_Witness ==
    \E t, u \in TxIds : \E k, j \in CallIds :
        /\ txs[u].parent = t
        /\ txs[u].pc = "committed"
        /\ RolledBack(t)
        /\ calls[k].by = u /\ calls[k].st = "ok" /\ ListCalls(u) = <<k>>
        /\ calls[j].by = t /\ calls[j].st = "ok"
        /\ RanCalls(t) = <<j>>
        /\ Len(trace) = 1

\* The state of the lifecycle the invocation t is in.  The context is created
\* and the body invoked in one synchronous step (CREATED, RUNNING); the
\* invocation is RUNNING until the body has thrown or the context is popped
\* after its return, and ROLLING_BACK from the failure of its body until the
\* pop that follows the last compensation.
Phase(T, t) ==
    CASE T[t].pc \in {"body", "returned"} -> "RUNNING"
      [] T[t].pc \in {"thrown", "comp"}    -> "ROLLING_BACK"
      [] T[t].pc = "committed"             -> "COMMITTED"
      [] T[t].pc = "failed"                -> "FAILED"
      [] T[t].pc = "aggregate"             -> "FAILED_AGGREGATE"

\* C24: when bodies and compensations terminate, an invocation of
\* transaction() starts RUNNING with an empty list, moves only from RUNNING
\* to COMMITTED or ROLLING_BACK and from ROLLING_BACK to FAILED or
\* FAILED_AGGREGATE, never leaves a terminal state, and eventually reaches
\* one: it is COMMITTED only if its body returned, FAILED only if its body
\* failed and no compensation failed, FAILED_AGGREGATE only if its body
\* failed and a compensation failed.
C24_Lifecycle ==
    /\ [][\A t \in DOMAIN txs' \ {0} :
             IF t \in TxIds
             THEN \/ Phase(txs', t) = Phase(txs, t)
                  \/ <<Phase(txs, t), Phase(txs', t)>> \in
                        {<<"RUNNING", "COMMITTED">>,
                         <<"RUNNING", "ROLLING_BACK">>,
                         <<"ROLLING_BACK", "FAILED">>,
                         <<"ROLLING_BACK", "FAILED_AGGREGATE">>}
             ELSE Phase(txs', t) = "RUNNING" /\ comps'[t] = <<>>]_vars
    /\ [](\A t \in TxIds :
             /\ Phase(txs, t) = "COMMITTED" =>
                    txs[t].error = NoError /\ txs[t].result = BodyValue(t)
             /\ Phase(txs, t) = "FAILED" =>
                    txs[t].error # NoError /\ FailuresOf(t) = <<>>
             /\ Phase(txs, t) = "FAILED_AGGREGATE" =>
                    txs[t].error # NoError /\ Len(FailuresOf(t)) >= 1)
    /\ \A t \in 1..MaxTx : (t \in TxIds) ~> (t \in TxIds /\ Ended(t))

\* Of two transactions started one after the other by the outside code, one
\* ended FAILED after a pass that invoked a compensation and the other
\* FAILED_AGGREGATE.
C24_Witness ==
    \E t, u \in TxIds :
        /\ txs[t].parent = 0 /\ txs[u].parent = 0
        /\ Phase(txs, t) = "FAILED" /\ Len(RanCalls(t)) >= 1
        /\ Phase(txs, u) = "FAILED_AGGREGATE"

====
